---- MODULE Spec2Model ----
(***************************************************************************)
(* Model of the AI-suggestion coordination of the problem view             *)
(* (src/src/App.tsx, ProblemView) and of the chat panel                    *)
(* (src/src/components/AIPrompter.tsx).                                    *)
(*                                                                         *)
(* Text is a sequence of characters, each a string naming one character,   *)
(* so that the regular expression scan and String.trim are computed        *)
(* character by character.                                                 *)
(* An optional value (T | null, or an optional field) is a sequence of     *)
(* length at most one: <<>> is null/absent, <<v>> is the value v.          *)
(***************************************************************************)
EXTENDS Integers, Sequences, FiniteSets, TLC

VARIABLES
    chat,               \* ProblemView: chat, Message[]
    pendingSuggestion,  \* ProblemView: pendingSuggestion, {type, code, range?} | null
    lastSuggestedCode,  \* ProblemView: lastSuggestedCode, string | null
    editorInstance,     \* ProblemView: editorInstance # null (the editor has mounted)
    text,               \* the editor's document (value={code})
    selection,          \* the editor's selection, what getSelection() returns
    effectDue,          \* a dependency of the suggestion effect changed; it runs next
    prompt,             \* AIPrompter: prompt
    isLoading,          \* AIPrompter: isLoading
    inflight,           \* the prompts of the outstanding completion calls, oldest first
    exOut,              \* what getLastCodeBlock returned for chat (ExtractSpec)
    exSegs,             \* per message of chat, the segments written into it (ExtractSpec)
    width,              \* AIPrompter: width (px)
    isResizing,         \* AIPrompter: isResizing.current
    currentUser,        \* useAuth().currentUser # null
    language,           \* ProblemView: language
    submitStatus,       \* ProblemView: submitStatus, string | null
    submitting,         \* ProblemView: submitting
    writes,             \* addDoc calls on 'submissions' not yet answered, oldest first
    submissions,        \* the documents of the 'submissions' collection
    isRunning,          \* ProblemView: isRunning
    output,             \* ProblemView: output, string | null
    runError,           \* ProblemView: runError, string | null
    runCalls,           \* execution calls handleRun waits for, with their answer once it is there
    id,                 \* ProblemView: useParams().id
    problem,            \* ProblemView: problem, Problem | null
    reads,              \* getDoc calls on 'problems' not yet answered
    overlay,            \* LoadingProvider: isLoading
    loadingMessage,     \* LoadingProvider: loadingMessage
    authLoading,        \* AuthProvider: loading
    authCalls,          \* the awaits of AuthProvider's async functions not yet answered
    userDoc,            \* the signed-in user's document exists in 'users'
    unhandled           \* promises rejected with no handler (unhandledrejection events)

vars == <<chat, pendingSuggestion, lastSuggestedCode, editorInstance, text,
          selection, effectDue, prompt, isLoading, inflight, exOut, exSegs,
          width, isResizing, currentUser, language, submitStatus, submitting,
          writes, submissions, isRunning, output, runError, runCalls, id,
          problem, reads, overlay, loadingMessage, authLoading, authCalls,
          userDoc, unhandled>>

\* the variables only ExtractSpec changes
exVars == <<exOut, exSegs>>

\* the chat panel's layout
layoutVars == <<width, isResizing>>

\* the problem view's submission
submitVars == <<currentUser, language, submitStatus, submitting, writes,
                submissions>>

\* the problem view's execution request
runVars == <<isRunning, output, runError, runCalls>>

\* the problem view's problem read and the loading overlay
fetchVars == <<id, problem, reads, overlay, loadingMessage>>

\* the auth provider
authVars == <<authLoading, authCalls, userDoc, unhandled>>

\* what the remote-service handlers outside the chat and the submission change
serviceVars == <<runVars, fetchVars, authVars>>

----------------------------------------------------------------------------
(* Optional values *)

None == <<>>

Some(v) == <<v>>

----------------------------------------------------------------------------
(* Characters and text *)

\* the backtick character (a string cannot hold it)
BT == "BACKTICK"

NL == "\n"

SP == " "

Fence == <<BT, BT, BT>>

\* [a-zA-Z]
Letters ==
    {"a", "b", "c", "d", "e", "f", "g", "h", "i", "j", "k", "l", "m",
     "n", "o", "p", "q", "r", "s", "t", "u", "v", "w", "x", "y", "z",
     "A", "B", "C", "D", "E", "F", "G", "H", "I", "J", "K", "L", "M",
     "N", "O", "P", "Q", "R", "S", "T", "U", "V", "W", "X", "Y", "Z"}

IsLetter(c) == c \in Letters

\* the characters String.prototype.trim removes, among those the model uses
IsSpace(c) == c \in {SP, NL}

RECURSIVE TrimLeft(_)
TrimLeft(s) ==
    IF s # <<>> /\ IsSpace(Head(s)) THEN TrimLeft(Tail(s)) ELSE s

RECURSIVE TrimRight(_)
TrimRight(s) ==
    IF s # <<>> /\ IsSpace(s[Len(s)])
    THEN TrimRight(SubSeq(s, 1, Len(s) - 1))
    ELSE s

trim(s) == TrimRight(TrimLeft(s))

----------------------------------------------------------------------------
(* The scan content.matchAll(re), re being: a fence of three backticks, any  *)
(* run of ASCII letters, a newline, a lazily matched body, a closing fence;  *)
(* global flag.                                                             *)

IsFenceAt(s, i) ==
    /\ i >= 1
    /\ i + 2 <= Len(s)
    /\ s[i] = BT /\ s[i + 1] = BT /\ s[i + 2] = BT

\* the run of letters is greedy; giving letters back never helps, the character after
\* a shorter run is a letter and so is not the newline the pattern wants
RECURSIVE SkipLetters(_, _)
SkipLetters(s, j) ==
    IF j <= Len(s) /\ IsLetter(s[j]) THEN SkipLetters(s, j + 1) ELSE j

\* the lazy body: it ends at the first closing fence at or after k, 0 when there is none
RECURSIVE FindFence(_, _)
FindFence(s, k) ==
    IF k + 2 > Len(s) THEN 0
    ELSE IF IsFenceAt(s, k) THEN k
    ELSE FindFence(s, k + 1)

NoMatch == [ok |-> FALSE, body |-> <<>>, next |-> 0]

\* one attempt of the pattern anchored at position i
ExecAt(s, i) ==
    IF ~IsFenceAt(s, i) THEN NoMatch
    ELSE LET j == SkipLetters(s, i + 3)
         IN  IF ~(j <= Len(s) /\ s[j] = NL) THEN NoMatch
             ELSE LET k == FindFence(s, j + 1)
                  IN  IF k = 0 THEN NoMatch
                      ELSE [ok |-> TRUE,
                            body |-> SubSeq(s, j + 1, k - 1),
                            next |-> k + 3]

\* all matches from position i on, leftmost first, each resuming after the
\* previous match (the g flag); the result is the sequence of capture groups
RECURSIVE MatchFrom(_, _)
MatchFrom(s, i) ==
    IF i > Len(s) THEN <<>>
    ELSE LET m == ExecAt(s, i)
         IN  IF m.ok THEN <<m.body>> \o MatchFrom(s, m.next)
             ELSE MatchFrom(s, i + 1)

matchAll(s) == MatchFrom(s, 1)

----------------------------------------------------------------------------
(* Extraction of the latest code block *)

\* [...chat].reverse().find(msg => msg.role === 'assistant'), None when
\* there is no such message
RECURSIVE FindLastAssistant(_, _)
FindLastAssistant(c, i) ==
    IF i = 0 THEN None
    ELSE IF c[i].role = "assistant" THEN Some(c[i])
    ELSE FindLastAssistant(c, i - 1)

\* faulty variant of lastAI: takes the final message whatever its role
lastAI_AnyRole(c) == IF Len(c) = 0 THEN None ELSE Some(c[Len(c)])

lastAI(c) == FindLastAssistant(c, Len(c))

\* faulty variant of getLastCodeBlock: returns the first block, not the last
getLastCodeBlock_FirstBlock(c) ==
    LET ai == lastAI(c)
    IN  IF ai = None THEN <<>>
        ELSE LET matches == matchAll(ai[1].content)
             IN  IF Len(matches) > 0 THEN trim(matches[1]) ELSE <<>>

\* AIPrompter.getLastCodeBlock
getLastCodeBlock(c) ==
    LET ai == lastAI(c)
    IN  IF ai = None THEN <<>>
        ELSE LET matches == matchAll(ai[1].content)
             IN  IF Len(matches) > 0 THEN trim(matches[Len(matches)]) ELSE <<>>

----------------------------------------------------------------------------
(* The editor surface: a document and a selection [start, end), positions   *)
(* counted from 1; the cursor is the selection's end.                       *)

Min(a, b) == IF a < b THEN a ELSE b

Max(a, b) == IF a > b THEN a ELSE b

Take(s, n) == SubSeq(s, 1, Min(Max(n, 0), Len(s)))

Drop(s, n) == SubSeq(s, Min(Max(n, 0), Len(s)) + 1, Len(s))

Range(s, e) == [start |-> s, end |-> e]

\* Range.isEmpty()
isEmpty(r) == r.start = r.end

\* the document with the characters of range r replaced by code; a range
\* reaching past the document is cut to it, as the editor validates ranges
ReplaceRange(doc, r, code) ==
    Take(doc, r.start - 1) \o code \o Drop(doc, r.end - 1)

\* where position p of the document lies after range r was replaced by n
\* characters
AdjustPos(p, r, n, len) ==
    LET s == Min(r.start, len + 1)
        e == Min(r.end, len + 1)
    IN  IF p <= s THEN p
        ELSE IF p >= e THEN p + n - (e - s)
        ELSE s + n

\* editor.trigger('ai', 'type', {text}): typing replaces the selection and
\* leaves the cursor after the typed text
TypeText(doc, sel, code) ==
    [text |-> ReplaceRange(doc, sel, code),
     selection |-> Range(sel.start + Len(code), sel.start + Len(code))]

\* editor.executeEdits('ai', [{range, text}]): the selection follows the edit
ExecuteEdits(doc, sel, r, code) ==
    [text |-> ReplaceRange(doc, r, code),
     selection |-> Range(AdjustPos(sel.start, r, Len(code), Len(doc)),
                         AdjustPos(sel.end, r, Len(code), Len(doc)))]

----------------------------------------------------------------------------
(* Bounds and inputs *)

\* sends of one session
MaxSends == 3

\* AIPrompter: useState(400), minWidth, maxWidth
InitialWidth == 400

minWidth == 320

maxWidth == 700

\* the problem's starter code, the editor's first document
StarterCode == <<"x">>

\* characters the editor's document may hold
MaxText == 2

\* what the user may type into the prompt field
PromptInputs ==
    { Fence \o <<NL, "u">> \o Fence }

\* texts a successful completion may carry: one block; two blocks, the
\* second with a language tag and padded; a blank block
ReplyTexts ==
    { Fence \o <<NL, "a">> \o Fence,
      Fence \o <<NL, "a">> \o Fence \o <<"t">> \o
          Fence \o <<"p", "y", NL, SP, "b", NL>> \o Fence,
      Fence \o <<NL, SP, NL>> \o Fence }

\* what the completion endpoint may answer: success with or without text,
\* or a failure (a non-2xx response with its body, or a transport error with
\* its message)
Outcomes ==
    [ok : {TRUE}, content : {Some(t) : t \in ReplyTexts}]
    \cup [ok : {FALSE}, content : {Some(<<"E">>)}]

NoResponse ==
    <<"N", "o", SP, "r", "e", "s", "p", "o", "n", "s", "e", SP,
      "f", "r", "o", "m", SP, "A", "I", ".">>

ErrorPrefix == <<"E", "r", "r", "o", "r", ":", SP>>

FailedToFetch ==
    <<"F", "a", "i", "l", "e", "d", SP, "t", "o", SP, "f", "e", "t", "c", "h", SP,
      "A", "I", SP, "r", "e", "s", "p", "o", "n", "s", "e", ".">>

----------------------------------------------------------------------------
(* The chat panel: sending *)

Message(r, c) == [role |-> r, content |-> c]

\* faulty variant of fetchOpenAICompletion: no fallback text
fetchOpenAICompletion_NoFallback(o) ==
    IF ~o.ok
    THEN [threw |-> TRUE, value |-> o.content[1]]
    ELSE [threw |-> FALSE,
          value |-> IF o.content = None THEN <<>> ELSE o.content[1]]

\* fetchOpenAICompletion: throws Error(body) on a failure, else returns
\* data.choices?.[0]?.message?.content || 'No response from AI.'
fetchOpenAICompletion(o) ==
    IF ~o.ok
    THEN [threw |-> TRUE, value |-> o.content[1]]
    ELSE [threw |-> FALSE,
          value |-> IF o.content = None \/ o.content = Some(<<>>)
                    THEN NoResponse
                    ELSE o.content[1]]

\* faulty variant of ReplyMessage: the reply is appended under the user role
ReplyMessage_AsUser(res) ==
    IF ~res.threw
    THEN Message("user", res.value)
    ELSE Message("user",
                 ErrorPrefix \o (IF res.value # <<>> THEN res.value ELSE FailedToFetch))

\* faulty variant of ReplyMessage: the error text without the prefix
ReplyMessage_NoPrefix(res) ==
    Message("assistant",
            IF res.threw /\ res.value = <<>> THEN FailedToFetch ELSE res.value)

\* the assistant message handleSend appends for the call's result
ReplyMessage(res) ==
    IF ~res.threw
    THEN Message("assistant", res.value)
    ELSE Message("assistant",
                 ErrorPrefix \o (IF res.value # <<>> THEN res.value ELSE FailedToFetch))

UserSends == Len(SelectSeq(chat, LAMBDA m : m.role = "user"))

\* the documents of the 'problems' collection, by identifier; a missing
\* identifier has no document
Problems ==
    [i \in {"p1", "p2"} |->
        [id |-> i,
         title |-> IF i = "p1" THEN "First" ELSE "Second",
         initialCode |-> IF i = "p1" THEN StarterCode ELSE <<"y">>]]

\* the problem view as the specifications of the chat, the layout and the
\* submission start it: mounted on problem p1, whose read has been answered
InitView ==
    /\ chat = <<>>
    /\ pendingSuggestion = None
    /\ lastSuggestedCode = None
    /\ editorInstance = FALSE
    /\ text = StarterCode
    /\ selection = Range(1, 1)
    /\ effectDue = FALSE
    /\ prompt = <<>>
    /\ isLoading = FALSE
    /\ inflight = None
    /\ exOut = <<>>
    /\ exSegs = <<>>
    /\ width = InitialWidth
    /\ isResizing = FALSE
    /\ currentUser = FALSE
    /\ language = "javascript"
    /\ submitStatus = None
    /\ submitting = FALSE
    /\ writes = <<>>
    /\ submissions = <<>>
    /\ isRunning = FALSE
    /\ output = None
    /\ runError = None
    /\ runCalls = <<>>
    /\ id = "p1"
    /\ problem = Some(Problems["p1"])
    /\ reads = <<>>
    /\ overlay = FALSE
    /\ loadingMessage = ""

\* the auth provider before the first auth state is delivered
AuthInit ==
    /\ InitView
    /\ authLoading = TRUE
    /\ authCalls = <<>>
    /\ userDoc = FALSE
    /\ unhandled = 0

\* the problem view is rendered: the auth provider has delivered its first
\* state and cleared its loading flag
Init ==
    /\ InitView
    /\ authLoading = FALSE
    /\ authCalls = <<>>
    /\ userDoc = FALSE
    /\ unhandled = 0

\* textarea onChange: setPrompt(e.target.value)
SetPromptTo(p) ==
    /\ ~effectDue
    /\ p # prompt
    /\ prompt' = p
    /\ UNCHANGED <<chat, pendingSuggestion, lastSuggestedCode, editorInstance,
                   text, selection, effectDue, isLoading, inflight, exVars,
                   layoutVars, submitVars, serviceVars>>

SetPrompt == \E p \in PromptInputs : SetPromptTo(p)

\* faulty variant of HandleSend: the Send button stays enabled while a call
\* is outstanding
HandleSend_WhileLoading ==
    /\ ~effectDue
    /\ UserSends < MaxSends
    /\ IF trim(prompt) = <<>>
       THEN UNCHANGED <<chat, isLoading, inflight, effectDue>>
       ELSE /\ isLoading' = TRUE
            /\ chat' = Append(chat, Message("user", prompt))
            /\ inflight' = Append(inflight, prompt)
            /\ effectDue' = TRUE
    /\ UNCHANGED <<pendingSuggestion, lastSuggestedCode, editorInstance,
                   text, selection, prompt, exVars, layoutVars, submitVars,
                   serviceVars>>

\* handleSend up to the await; the Send button is disabled while isLoading
\* or while the prompt is blank
HandleSend ==
    /\ ~effectDue
    /\ ~isLoading
    /\ UserSends < MaxSends
    /\ IF trim(prompt) = <<>>
       THEN UNCHANGED <<chat, isLoading, inflight, effectDue>>
       ELSE /\ isLoading' = TRUE
            /\ chat' = Append(chat, Message("user", prompt))
            /\ inflight' = Append(inflight, prompt)
            /\ effectDue' = TRUE
    /\ UNCHANGED <<pendingSuggestion, lastSuggestedCode, editorInstance,
                   text, selection, prompt, exVars,
                   layoutVars, submitVars, serviceVars>>

\* faulty variant of HandleSendResumeWith: the prompt is kept
HandleSendResumeWith_KeepsPrompt(o) ==
    /\ ~effectDue
    /\ inflight # <<>>
    /\ chat' = Append(chat, ReplyMessage(fetchOpenAICompletion(o)))
    /\ isLoading' = FALSE
    /\ inflight' = Tail(inflight)
    /\ effectDue' = TRUE
    /\ UNCHANGED <<pendingSuggestion, lastSuggestedCode, editorInstance,
                   text, selection, prompt, exVars, layoutVars, submitVars,
                   serviceVars>>

\* faulty variant of HandleSendResumeWith: the reply replaces the transcript
HandleSendResumeWith_Replaces(o) ==
    /\ ~effectDue
    /\ inflight # <<>>
    /\ chat' = <<ReplyMessage(fetchOpenAICompletion(o))>>
    /\ prompt' = <<>>
    /\ isLoading' = FALSE
    /\ inflight' = Tail(inflight)
    /\ effectDue' = TRUE
    /\ UNCHANGED <<pendingSuggestion, lastSuggestedCode, editorInstance,
                   text, selection, exVars, layoutVars, submitVars,
                   serviceVars>>

\* handleSend from the await on, for the oldest outstanding call answered
\* with o
HandleSendResumeWith(o) ==
    /\ ~effectDue
    /\ inflight # <<>>
    /\ chat' = Append(chat, ReplyMessage(fetchOpenAICompletion(o)))
    /\ prompt' = <<>>
    /\ isLoading' = FALSE
    /\ inflight' = Tail(inflight)
    /\ effectDue' = TRUE
    /\ UNCHANGED <<pendingSuggestion, lastSuggestedCode, editorInstance,
                   text, selection, exVars,
                   layoutVars, submitVars, serviceVars>>

\* the call's result or failure arrives
HandleSendResume == \E o \in Outcomes : HandleSendResumeWith(o)

----------------------------------------------------------------------------
(* The editor: mounting and the user's own editing *)

\* MonacoEditor onMount: setEditorInstance(editor)
MountEditor ==
    /\ ~effectDue
    /\ ~editorInstance
    /\ editorInstance' = TRUE
    /\ effectDue' = TRUE
    /\ UNCHANGED <<chat, pendingSuggestion, lastSuggestedCode, text, selection,
                   prompt, isLoading, inflight, exVars,
                   layoutVars, submitVars, serviceVars>>

\* editorInstance.getSelection()
getSelection == selection

\* the user moves the cursor or selects; no dependency of the suggestion
\* effect changes
SelectionChange ==
    /\ ~effectDue
    /\ editorInstance
    /\ \E s \in 1..(Len(text) + 1) : \E e \in s..(Len(text) + 1) :
        /\ Range(s, e) # selection
        /\ selection' = Range(s, e)
    /\ UNCHANGED <<chat, pendingSuggestion, lastSuggestedCode, editorInstance,
                   text, effectDue, prompt, isLoading, inflight, exVars,
                   layoutVars, submitVars, serviceVars>>

\* the user deletes: the selection, or the character before the cursor
\* (MonacoEditor onChange: setCode)
UserDelete ==
    /\ ~effectDue
    /\ editorInstance
    /\ selection.end > 1
    /\ LET r == IF isEmpty(selection)
                THEN Range(selection.start - 1, selection.end)
                ELSE selection
       IN  /\ text' = ReplaceRange(text, r, <<>>)
           /\ selection' = Range(r.start, r.start)
    /\ UNCHANGED <<chat, pendingSuggestion, lastSuggestedCode, editorInstance,
                   effectDue, prompt, isLoading, inflight, exVars,
                   layoutVars, submitVars, serviceVars>>

----------------------------------------------------------------------------
(* The chat panel's Insert and Replace buttons *)

\* handleInsert
handleInsert ==
    /\ ~effectDue
    /\ LET code == getLastCodeBlock(chat)
       IN  IF ~editorInstance \/ code = <<>>
           THEN UNCHANGED <<text, selection>>
           ELSE LET r == TypeText(text, selection, code)
                IN  /\ Len(r.text) <= MaxText
                    /\ text' = r.text /\ selection' = r.selection
    /\ UNCHANGED <<chat, pendingSuggestion, lastSuggestedCode, editorInstance,
                   effectDue, prompt, isLoading, inflight, exVars,
                   layoutVars, submitVars, serviceVars>>

\* handleReplace
handleReplace ==
    /\ ~effectDue
    /\ LET code == getLastCodeBlock(chat)
       IN  IF ~editorInstance \/ code = <<>> \/ isEmpty(getSelection)
           THEN UNCHANGED <<text, selection>>
           ELSE LET r == ExecuteEdits(text, selection, getSelection, code)
                IN  /\ Len(r.text) <= MaxText
                    /\ text' = r.text /\ selection' = r.selection
    /\ UNCHANGED <<chat, pendingSuggestion, lastSuggestedCode, editorInstance,
                   effectDue, prompt, isLoading, inflight, exVars,
                   layoutVars, submitVars, serviceVars>>

----------------------------------------------------------------------------
(* The suggestion coordinator (ProblemView) *)

Suggestion(t, c, r) == [type |-> t, code |-> c, range |-> r]

\* faulty variant of AlreadyOffered: forgets the last resolved code
AlreadyOffered_PendingOnly(code, pending, lastCode) ==
    pending # None /\ pending[1].code = code

\* faulty variant of AlreadyOffered: sees only the last resolved code
AlreadyOffered_LastOnly(code, pending, lastCode) == lastCode = Some(code)

\* faulty variant of AlreadyOffered: suppresses every block
AlreadyOffered_Always(code, pending, lastCode) == TRUE

\* the effect's suppression test: this code is already pending, or was the
\* last one resolved
AlreadyOffered(code, pending, lastCode) ==
    \/ (pending # None /\ pending[1].code = code)
    \/ lastCode = Some(code)

\* faulty variant of Intent: never looks at the selection
Intent_AlwaysInsert(code, sel) == Suggestion("insert", code, None)

\* the effect's choice of intent from the editor's selection
Intent(code, sel) ==
    IF ~isEmpty(sel)
    THEN Suggestion("replace", code, Some(sel))
    ELSE Suggestion("insert", code, None)

\* faulty variant of SuggestionEffectResult: evaluates the transcript without
\* waiting for the editor
SuggestionEffectResult_Unmounted(mounted, c, pending, lastCode, sel) ==
    IF Len(c) = 0 THEN pending
    ELSE LET ai == lastAI(c)
         IN  IF ai = None THEN pending
             ELSE LET matches == matchAll(ai[1].content)
                  IN  IF Len(matches) = 0 THEN pending
                      ELSE LET code == trim(matches[Len(matches)])
                           IN  IF AlreadyOffered(code, pending, lastCode)
                               THEN pending
                               ELSE Some(Intent(code, sel))

\* the effect on [editorInstance, chat, pendingSuggestion, lastSuggestedCode]:
\* the value it leaves in pendingSuggestion
SuggestionEffectResult(mounted, c, pending, lastCode, sel) ==
    IF ~mounted THEN pending
    ELSE IF Len(c) = 0 THEN pending
    ELSE LET ai == lastAI(c)
         IN  IF ai = None THEN pending
             ELSE LET matches == matchAll(ai[1].content)
                  IN  IF Len(matches) = 0 THEN pending
                      ELSE LET code == trim(matches[Len(matches)])
                           IN  IF AlreadyOffered(code, pending, lastCode)
                               THEN pending
                               ELSE Some(Intent(code, sel))

\* the effect runs after the render that changed one of its dependencies,
\* before any further event is handled; setting pendingSuggestion changes
\* a dependency, so the effect then runs once more
SuggestionEffect ==
    /\ effectDue
    /\ pendingSuggestion' =
           SuggestionEffectResult(editorInstance, chat, pendingSuggestion,
                                  lastSuggestedCode, getSelection)
    /\ effectDue' = (pendingSuggestion' # pendingSuggestion)
    /\ UNCHANGED <<chat, lastSuggestedCode, editorInstance, text, selection,
                   prompt, isLoading, inflight, exVars,
                   layoutVars, submitVars, serviceVars>>

\* faulty variant of AcceptEdit: replaces the selection of the moment, not
\* the captured range
AcceptEdit_CurrentSelection(doc, sel, sug) ==
    IF sug.type = "insert"
    THEN TypeText(doc, sel, sug.code)
    ELSE ExecuteEdits(doc, sel, sel, sug.code)

\* the edit Accept hands to the editor
AcceptEdit(doc, sel, sug) ==
    IF sug.type = "insert"
    THEN TypeText(doc, sel, sug.code)
    ELSE IF sug.type = "replace" /\ sug.range # None
    THEN ExecuteEdits(doc, sel, sug.range[1], sug.code)
    ELSE [text |-> doc, selection |-> sel]

\* faulty variant of Accept: applies the edit without recording the code
Accept_KeepsLast ==
    /\ ~effectDue
    /\ pendingSuggestion # None
    /\ editorInstance
    /\ LET r == AcceptEdit(text, selection, pendingSuggestion[1])
       IN  /\ Len(r.text) <= MaxText
           /\ text' = r.text
           /\ selection' = r.selection
    /\ pendingSuggestion' = None
    /\ effectDue' = TRUE
    /\ UNCHANGED <<chat, lastSuggestedCode, editorInstance, prompt, isLoading,
                   inflight, exVars, layoutVars, submitVars, serviceVars>>

\* the modal's Accept button (rendered while a suggestion is pending)
Accept ==
    /\ ~effectDue
    /\ pendingSuggestion # None
    /\ IF ~editorInstance
       THEN UNCHANGED <<text, selection, lastSuggestedCode, pendingSuggestion,
                        effectDue>>
       ELSE LET r == AcceptEdit(text, selection, pendingSuggestion[1])
            IN  /\ Len(r.text) <= MaxText
                /\ text' = r.text
                /\ selection' = r.selection
                /\ lastSuggestedCode' = Some(pendingSuggestion[1].code)
                /\ pendingSuggestion' = None
                /\ effectDue' = TRUE
    /\ UNCHANGED <<chat, editorInstance, prompt, isLoading, inflight, exVars,
                   layoutVars, submitVars, serviceVars>>

\* faulty variant of Reject: closes the modal without recording the code
Reject_KeepsLast ==
    /\ ~effectDue
    /\ pendingSuggestion # None
    /\ pendingSuggestion' = None
    /\ effectDue' = TRUE
    /\ UNCHANGED <<chat, lastSuggestedCode, editorInstance, text, selection,
                   prompt, isLoading, inflight, exVars,
                   layoutVars, submitVars, serviceVars>>

\* the modal's Reject button
Reject ==
    /\ ~effectDue
    /\ pendingSuggestion # None
    /\ lastSuggestedCode' = Some(pendingSuggestion[1].code)
    /\ pendingSuggestion' = None
    /\ effectDue' = TRUE
    /\ UNCHANGED <<chat, editorInstance, text, selection, prompt, isLoading,
                   inflight, exVars,
                   layoutVars, submitVars, serviceVars>>

Next ==
    \/ SetPrompt
    \/ HandleSend
    \/ HandleSendResume
    \/ MountEditor
    \/ SelectionChange
    \/ UserDelete
    \/ SuggestionEffect
    \/ Accept
    \/ Reject

\* the session without the chat panel's own Insert and Replace buttons
Spec == Init /\ [][Next]_vars

\* sends of a session in which the panel's Insert and Replace are used
MaxPanelSends == 2

PanelHandleSend == HandleSend /\ UserSends < MaxPanelSends

\* the session with the chat panel's Insert and Replace buttons
PanelNext ==
    \/ SetPrompt
    \/ PanelHandleSend
    \/ HandleSendResume
    \/ MountEditor
    \/ SelectionChange
    \/ UserDelete
    \/ handleInsert
    \/ handleReplace
    \/ SuggestionEffect
    \/ Accept
    \/ Reject

PanelSpec == Init /\ [][PanelNext]_vars

----------------------------------------------------------------------------
(* The chat panel's layout: the drag handle and the window's mouse listeners *)

\* pointer positions tried: 64 px apart from the left edge on
MaxPointerSteps == 16

\* MouseEvent.clientX, with positions far outside the viewport
PointerXs == {-100000, 100000} \cup {64 * k : k \in 0..MaxPointerSteps}

\* window.innerWidth
InnerWidths == {200, 1024}

\* faulty variant of NewWidth: no clamping
NewWidth_Unclamped(inner, x) == inner - x

\* Math.min(Math.max(window.innerWidth - e.clientX, minWidth), maxWidth)
NewWidth(inner, x) == Min(Max(inner - x, minWidth), maxWidth)

\* the drag handle's onMouseDown
handleMouseDown ==
    /\ ~effectDue
    /\ isResizing' = TRUE
    /\ UNCHANGED <<chat, pendingSuggestion, lastSuggestedCode, editorInstance,
                   text, selection, effectDue, prompt, isLoading, inflight,
                   exVars, width, submitVars, serviceVars>>

\* faulty variant of handleMouseMove: resizes outside a session too
handleMouseMove_Always ==
    /\ ~effectDue
    /\ \E x \in PointerXs : \E inner \in InnerWidths :
        width' = NewWidth(inner, x)
    /\ UNCHANGED <<chat, pendingSuggestion, lastSuggestedCode, editorInstance,
                   text, selection, effectDue, prompt, isLoading, inflight,
                   exVars, isResizing, submitVars, serviceVars>>

\* the window's mousemove listener
handleMouseMove ==
    /\ ~effectDue
    /\ \E x \in PointerXs : \E inner \in InnerWidths :
        IF ~isResizing
        THEN UNCHANGED width
        ELSE width' = NewWidth(inner, x)
    /\ UNCHANGED <<chat, pendingSuggestion, lastSuggestedCode, editorInstance,
                   text, selection, effectDue, prompt, isLoading, inflight,
                   exVars, isResizing, submitVars, serviceVars>>

\* the window's mouseup listener
handleMouseUp ==
    /\ ~effectDue
    /\ isResizing' = FALSE
    /\ UNCHANGED <<chat, pendingSuggestion, lastSuggestedCode, editorInstance,
                   text, selection, effectDue, prompt, isLoading, inflight,
                   exVars, width, submitVars, serviceVars>>

\* sends of a session in which the panel is resized
MaxLayoutSends == 1

LayoutHandleSend == HandleSend /\ UserSends < MaxLayoutSends

\* the session with the panel's drag handle
LayoutNext ==
    \/ handleMouseDown
    \/ handleMouseMove
    \/ handleMouseUp
    \/ SetPrompt
    \/ LayoutHandleSend
    \/ HandleSendResume
    \/ MountEditor
    \/ SelectionChange
    \/ SuggestionEffect
    \/ Accept
    \/ Reject

LayoutSpec == Init /\ [][LayoutNext]_vars

----------------------------------------------------------------------------
(* SendSpec: the chat panel's send with every kind of prompt and answer *)

\* sends of a session of SendSpec
MaxSendSends == 2

\* prompts typed: empty, blank, text, text after a blank
SendPrompts == {<<>>, <<SP>>, <<"q">>, <<SP, "q">>}

\* answers: a success without a message content, with an empty one, with
\* prose, with a fenced block; a failure (non-2xx response or transport
\* error) with an empty or a non-empty text
SendOutcomes ==
    [ok : {TRUE},
     content : {None, Some(<<>>), Some(<<"t">>),
                Some(Fence \o <<NL, "a">> \o Fence)}]
    \cup [ok : {FALSE}, content : {Some(<<>>), Some(<<"E">>)}]

SendSetPrompt == \E p \in SendPrompts : SetPromptTo(p)

SendHandleSend == HandleSend /\ UserSends < MaxSendSends

SendHandleSendResume == \E o \in SendOutcomes : HandleSendResumeWith(o)

SendNext ==
    \/ SendSetPrompt
    \/ SendHandleSend
    \/ SendHandleSendResume
    \/ MountEditor
    \/ SuggestionEffect
    \/ Reject

SendSpec == Init /\ [][SendNext]_vars

\* the completion call settles (fetchOpenAICompletion resolves or rejects and
\* handleSend resumes), and React runs the effects a render leaves due
SendFairSpec ==
    SendSpec /\ WF_vars(SendHandleSendResume) /\ WF_vars(SuggestionEffect)

----------------------------------------------------------------------------
(* ExtractSpec: getLastCodeBlock applied to transcripts written segment by  *)
(* segment, with any roles in any order.  exSegs remembers what was written *)
(* into each message: prose, or a fenced block and its body.                *)

\* messages of a transcript
MaxMsgs == 3

\* segments written into a transcript, all messages together
MaxSegs == 3

\* a fenced block as it is written: fence, language tag, newline, body, fence
Block(lang, body) == Fence \o lang \o <<NL>> \o body \o Fence

\* prose a message may hold around its blocks (inline code has single
\* backticks)
ProseSegs == { <<"t">>, <<BT, "t", BT>> }

\* blocks a message may hold, as <<language tag, body>>
BlockSegs ==
    { << <<>>, <<"a">> >>,
      << <<"p", "y">>, <<SP, "b", NL>> >>,
      << <<>>, <<SP, NL>> >>,
      << <<>>, <<>> >> }

RECURSIVE SumLen(_)
SumLen(ss) == IF ss = <<>> THEN 0 ELSE Len(Head(ss)) + SumLen(Tail(ss))

\* the transcript with w written at the end of its last message
WriteLast(c, w) ==
    [c EXCEPT ![Len(c)] = Message(c[Len(c)].role, c[Len(c)].content \o w)]

\* a new, empty message of either role
ExNewMessage ==
    /\ Len(chat) < MaxMsgs
    /\ \E r \in {"user", "assistant"} :
        chat' = Append(chat, Message(r, <<>>))
    /\ exSegs' = Append(exSegs, <<>>)
    /\ exOut' = getLastCodeBlock(chat')
    /\ UNCHANGED <<pendingSuggestion, lastSuggestedCode, editorInstance, text,
                   selection, effectDue, prompt, isLoading, inflight,
                   layoutVars, submitVars, serviceVars>>

\* prose written at the end of the last message
ExWriteProse ==
    /\ chat # <<>>
    /\ SumLen(exSegs) < MaxSegs
    /\ \E w \in ProseSegs :
        /\ chat' = WriteLast(chat, w)
        /\ exSegs' = [exSegs EXCEPT ![Len(chat)] =
                          Append(@, [block |-> FALSE, body |-> w])]
    /\ exOut' = getLastCodeBlock(chat')
    /\ UNCHANGED <<pendingSuggestion, lastSuggestedCode, editorInstance, text,
                   selection, effectDue, prompt, isLoading, inflight,
                   layoutVars, submitVars, serviceVars>>

\* a fenced block written at the end of the last message
ExWriteBlock ==
    /\ chat # <<>>
    /\ SumLen(exSegs) < MaxSegs
    /\ \E b \in BlockSegs :
        /\ chat' = WriteLast(chat, Block(b[1], b[2]))
        /\ exSegs' = [exSegs EXCEPT ![Len(chat)] =
                          Append(@, [block |-> TRUE, body |-> b[2]])]
    /\ exOut' = getLastCodeBlock(chat')
    /\ UNCHANGED <<pendingSuggestion, lastSuggestedCode, editorInstance, text,
                   selection, effectDue, prompt, isLoading, inflight,
                   layoutVars, submitVars, serviceVars>>

ExtractNext ==
    \/ ExNewMessage
    \/ ExWriteProse
    \/ ExWriteBlock

ExtractSpec == Init /\ [][ExtractNext]_vars

----------------------------------------------------------------------------
(* Regular expressions of the code sanitizer, matched character by           *)
(* character with backtracking. A pattern is a sequence of items; an item    *)
(* is a character class with a quantifier: one, star and plus (greedy),      *)
(* lazy (a lazy star), or the line-start anchor of the m flag.               *)

CR == "\r"

Digits == {"0", "1", "2", "3", "4", "5", "6", "7", "8", "9"}

\* the lower-case letter of each upper-case letter
LowerOf ==
    ("A" :> "a") @@ ("B" :> "b") @@ ("C" :> "c") @@ ("D" :> "d") @@
    ("E" :> "e") @@ ("F" :> "f") @@ ("G" :> "g") @@ ("H" :> "h") @@
    ("I" :> "i") @@ ("J" :> "j") @@ ("K" :> "k") @@ ("L" :> "l") @@
    ("M" :> "m") @@ ("N" :> "n") @@ ("O" :> "o") @@ ("P" :> "p") @@
    ("Q" :> "q") @@ ("R" :> "r") @@ ("S" :> "s") @@ ("T" :> "t") @@
    ("U" :> "u") @@ ("V" :> "v") @@ ("W" :> "w") @@ ("X" :> "x") @@
    ("Y" :> "y") @@ ("Z" :> "z")

\* the i flag's case folding
\* faulty variant of ToLower: the i flag is ignored
ToLower_CaseSensitive(c) == c

ToLower(c) == IF c \in DOMAIN LowerOf THEN LowerOf[c] ELSE c

\* an item for one literal character
L(c) == [k |-> "lit", c |-> c, q |-> "one"]

\* an item for a character class with a quantifier
Q(k, q) == [k |-> k, c |-> "", q |-> q]

\* the items of a literal text
Lits(t) == [n \in 1..Len(t) |-> L(t[n])]

\* does character c belong to the class of item it; ci is the i flag
InClass(it, c, ci) ==
    CASE it.k = "lit"      -> IF ci THEN ToLower(c) = ToLower(it.c) ELSE c = it.c
      [] it.k = "ws"       -> IsSpace(c) \/ c = CR
      [] it.k = "dot"      -> c \notin {NL, CR}
      [] it.k = "any"      -> TRUE
      [] it.k = "word"     -> IsLetter(c) \/ c \in Digits \/ c = "_"
      [] it.k = "wordDot"  -> IsLetter(c) \/ c \in Digits \/ c \in {"_", "."}
      [] it.k = "quote"    -> c \in {"'", "\""}
      [] it.k = "open"     -> c \in {"<", "\""}
      [] it.k = "notClose" -> c \notin {">", "\""}
      [] it.k = "close"    -> c \in {">", "\""}
      [] it.k = "eol"      -> c \in {NL, CR}
      [] OTHER             -> FALSE

\* how many characters of s from position i on belong to the class of it
RECURSIVE RunLen(_, _, _, _)
RunLen(it, s, i, ci) ==
    IF i <= Len(s) /\ InClass(it, s[i], ci)
    THEN 1 + RunLen(it, s, i + 1, ci)
    ELSE 0

\* items k.. of pattern p matched against s at position i: the position
\* after the match, 0 when there is none. TryCount tries item k with n
\* characters, then n + step, up to last.
RECURSIVE MatchItems(_, _, _, _, _)
RECURSIVE TryCount(_, _, _, _, _, _, _, _)
MatchItems(p, k, s, i, ci) ==
    IF k > Len(p) THEN i
    ELSE IF p[k].k = "bol"
    THEN IF i = 1 \/ s[i - 1] \in {NL, CR}
         THEN MatchItems(p, k + 1, s, i, ci) ELSE 0
    ELSE IF p[k].q = "one"
    THEN IF i <= Len(s) /\ InClass(p[k], s[i], ci)
         THEN MatchItems(p, k + 1, s, i + 1, ci) ELSE 0
    ELSE LET run == RunLen(p[k], s, i, ci)
             least == IF p[k].q = "plus" THEN 1 ELSE 0
         IN  IF run < least THEN 0
             ELSE IF p[k].q = "lazy"
             THEN TryCount(p, k, s, i, ci, least, 1, run)
             ELSE TryCount(p, k, s, i, ci, run, -1, least)

TryCount(p, k, s, i, ci, n, step, last) ==
    LET e == MatchItems(p, k + 1, s, i + n, ci)
    IN  IF e # 0 THEN e
        ELSE IF n = last THEN 0
        ELSE TryCount(p, k, s, i, ci, n + step, step, last)

\* the first of the alternatives alts that matches s at i: the position
\* after the match, 0 when none matches
RECURSIVE MatchAlts(_, _, _, _, _)
MatchAlts(alts, a, s, i, ci) ==
    IF a > Len(alts) THEN 0
    ELSE LET e == MatchItems(alts[a], 1, s, i, ci)
         IN  IF e # 0 THEN e ELSE MatchAlts(alts, a + 1, s, i, ci)

\* RegExp.prototype.test without the g flag
Test(p, s, ci) == \E i \in 1..(Len(s) + 1) : MatchItems(p, 1, s, i, ci) # 0

\* the matches of a g-flag replace, from position i on: <<start, end>> with
\* end the position after the match
RECURSIVE FindAll(_, _, _, _)
FindAll(alts, s, i, ci) ==
    IF i > Len(s) + 1 THEN <<>>
    ELSE LET e == MatchAlts(alts, 1, s, i, ci)
         IN  IF e = 0 THEN FindAll(alts, s, i + 1, ci)
             ELSE IF e = i THEN <<<<i, e>>>> \o FindAll(alts, s, i + 1, ci)
             ELSE <<<<i, e>>>> \o FindAll(alts, s, e, ci)

\* s without the characters of the spans whose flag in drop is set
RemoveSpans(s, spans, drop) ==
    LET gone == {i \in 1..Len(s) :
                    \E j \in 1..Len(spans) :
                        drop[j] /\ spans[j][1] <= i /\ i < spans[j][2]}
        kept == SelectSeq([i \in 1..Len(s) |-> i], LAMBDA i : i \notin gone)
    IN  [j \in 1..Len(kept) |-> s[kept[j]]]

\* String.prototype.replace(regexp with g, '')
RemoveAll(alts, s) ==
    LET spans == FindAll(alts, s, 1, FALSE)
    IN  RemoveSpans(s, spans, [j \in 1..Len(spans) |-> TRUE])

----------------------------------------------------------------------------
(* The code sanitizer (src/src/utils/codeSanitizer.ts) *)

DANGEROUS_PATTERNS ==
    << Lits(<<"e", "v", "a", "l">>) \o <<Q("ws", "star")>> \o Lits(<<"(">>),
       Lits(<<"F", "u", "n", "c", "t", "i", "o", "n">>) \o <<Q("ws", "star")>> \o Lits(<<"(">>),
       Lits(<<"s", "e", "t", "T", "i", "m", "e", "o", "u", "t">>) \o <<Q("ws", "star")>> \o Lits(<<"(">>),
       Lits(<<"s", "e", "t", "I", "n", "t", "e", "r", "v", "a", "l">>) \o <<Q("ws", "star")>> \o Lits(<<"(">>),
       Lits(<<"n", "e", "w">>) \o <<Q("ws", "plus")>> \o Lits(<<"F", "u", "n", "c", "t", "i", "o", "n">>),
       Lits(<<"d", "o", "c", "u", "m", "e", "n", "t", ".">>),
       Lits(<<"w", "i", "n", "d", "o", "w", ".">>),
       Lits(<<"l", "o", "c", "a", "l", "S", "t", "o", "r", "a", "g", "e", ".">>),
       Lits(<<"s", "e", "s", "s", "i", "o", "n", "S", "t", "o", "r", "a", "g", "e", ".">>),
       Lits(<<"i", "n", "d", "e", "x", "e", "d", "D", "B", ".">>),
       Lits(<<"f", "e", "t", "c", "h">>) \o <<Q("ws", "star")>> \o Lits(<<"(">>),
       Lits(<<"X", "M", "L", "H", "t", "t", "p", "R", "e", "q", "u", "e", "s", "t">>),
       Lits(<<"W", "e", "b", "S", "o", "c", "k", "e", "t">>),
       Lits(<<"W", "o", "r", "k", "e", "r">>),
       Lits(<<"i", "m", "p", "o", "r", "t">>) \o <<Q("ws", "star")>> \o Lits(<<"(">>),
       Lits(<<"r", "e", "q", "u", "i", "r", "e">>) \o <<Q("ws", "star")>> \o Lits(<<"(">>),
       Lits(<<"p", "r", "o", "c", "e", "s", "s", ".">>),
       Lits(<<"_", "_", "d", "i", "r", "n", "a", "m", "e">>),
       Lits(<<"_", "_", "f", "i", "l", "e", "n", "a", "m", "e">>),
       Lits(<<"g", "l", "o", "b", "a", "l", ".">>),
       Lits(<<"m", "o", "d", "u", "l", "e", ".">>),
       Lits(<<"e", "x", "p", "o", "r", "t", "s", ".">>) >>

\* the patterns that match code, in the order of the list
MatchedPatterns(code) ==
    SelectSeq([n \in 1..Len(DANGEROUS_PATTERNS) |-> n],
              LAMBDA n : Test(DANGEROUS_PATTERNS[n], code, TRUE))

isCodeSafe(code) == MatchedPatterns(code) = <<>>

\* import, whitespace, anything lazily, from, whitespace, a quoted text
ImportFromPattern ==
    Lits(<<"i", "m", "p", "o", "r", "t">>) \o <<Q("ws", "plus"), Q("dot", "lazy")>>
    \o Lits(<<"f", "r", "o", "m">>) \o <<Q("ws", "plus"), Q("quote", "one"),
                                   Q("dot", "lazy"), Q("quote", "one")>>

\* require, optional whitespace, a quoted text in parentheses
RequirePattern ==
    Lits(<<"r", "e", "q", "u", "i", "r", "e">>) \o <<Q("ws", "star"), L("("), Q("quote", "one"),
                           Q("dot", "lazy"), Q("quote", "one"), L(")")>>

\* import, whitespace, a module name (python)
PythonImportPattern ==
    Lits(<<"i", "m", "p", "o", "r", "t">>) \o <<Q("ws", "plus"), Q("word", "plus")>>

\* import, whitespace, a package name, a semicolon (java)
JavaImportPattern ==
    Lits(<<"i", "m", "p", "o", "r", "t">>) \o <<Q("ws", "plus"), Q("wordDot", "plus"), L(";")>>

\* #include, whitespace, a header name in angle brackets or quotes (cpp)
CppIncludePattern ==
    Lits(<<"#", "i", "n", "c", "l", "u", "d", "e">>) \o <<Q("ws", "plus"), Q("open", "one"),
                            Q("notClose", "plus"), Q("close", "one")>>

\* a block comment, or a line comment to the end of the line
CommentPatterns ==
    << <<L("/"), L("*"), Q("any", "lazy"), L("*"), L("/")>>,
       <<L("/"), L("/"), Q("dot", "star")>> >>

\* a line of whitespace only, with its line end (m flag)
BlankLinePattern == <<Q("bol", "one"), Q("ws", "star"), Q("eol", "one")>>

allowedPythonImports ==
    {<<"m", "a", "t", "h">>, <<"r", "a", "n", "d", "o", "m">>,
     <<"d", "a", "t", "e", "t", "i", "m", "e">>, <<"c", "o", "l", "l", "e", "c", "t", "i", "o", "n", "s">>}

allowedJavaImports ==
    {<<"j", "a", "v", "a", ".", "u", "t", "i", "l">>, <<"j", "a", "v", "a", ".", "l", "a", "n", "g">>, <<"j", "a", "v", "a", ".", "m", "a", "t", "h">>}

allowedCppHeaders ==
    {<<"i", "o", "s", "t", "r", "e", "a", "m">>, <<"s", "t", "r", "i", "n", "g">>, <<"v", "e", "c", "t", "o", "r">>, <<"a", "l", "g", "o", "r", "i", "t", "h", "m">>}

\* the captured group of a match of an import or include pattern: it begins
\* after the keyword (of length kw), the whitespace and lead further
\* characters, and ends trail characters before the end of the match
Captured(s, span, kw, lead, trail) ==
    LET from == span[1] + kw
                  + RunLen(Q("ws", "one"), s, span[1] + kw, FALSE) + lead
    IN  SubSeq(s, from, span[2] - 1 - trail)

\* the replace callback of each language: is the import kept
ImportAllowed(lang, s, span) ==
    CASE lang = "python" ->
            Captured(s, span, 6, 0, 0) \in allowedPythonImports
      [] lang = "java" ->
            LET pkg == Captured(s, span, 6, 0, 1)
            IN  \E a \in allowedJavaImports :
                    Len(pkg) >= Len(a) /\ SubSeq(pkg, 1, Len(a)) = a
      [] lang = "cpp" ->
            Captured(s, span, 8, 1, 1) \in allowedCppHeaders
      [] OTHER -> TRUE

\* the name an import error reports
ImportName(lang, s, span) ==
    CASE lang = "python" -> Captured(s, span, 6, 0, 0)
      [] lang = "java" -> Captured(s, span, 6, 0, 1)
      [] lang = "cpp" -> Captured(s, span, 8, 1, 1)
      [] OTHER -> <<>>

\* the language switch of sanitizeCode: the text left and the errors pushed
StripImports(code, lang) ==
    IF lang \in {"javascript", "typescript"}
    THEN [text |-> RemoveAll(<<RequirePattern>>,
                             RemoveAll(<<ImportFromPattern>>, code)),
          errors |-> <<>>]
    ELSE IF lang \in {"python", "java", "cpp"}
    THEN LET pat == CASE lang = "python" -> PythonImportPattern
                      [] lang = "java" -> JavaImportPattern
                      [] OTHER -> CppIncludePattern
             spans == FindAll(<<pat>>, code, 1, FALSE)
             drop == [j \in 1..Len(spans) |->
                          ~ImportAllowed(lang, code, spans[j])]
             bad == SelectSeq(spans,
                              LAMBDA sp : ~ImportAllowed(lang, code, sp))
         IN  [text |-> RemoveSpans(code, spans, drop),
              errors |-> [j \in 1..Len(bad) |->
                             [kind |-> "import",
                              name |-> ImportName(lang, code, bad[j])]]]
    ELSE [text |-> code, errors |-> <<>>]

\* sanitizeCode: a SanitizationResult
sanitizeCode(code, lang) ==
    LET found == MatchedPatterns(code)
        patternErrors == [j \in 1..Len(found) |->
                             [kind |-> "pattern", name |-> found[j]]]
        stripped == StripImports(code, lang)
        uncommented == RemoveAll(CommentPatterns, stripped.text)
        sanitizedCode == RemoveAll(<<BlankLinePattern>>, uncommented)
        errors == patternErrors \o stripped.errors
    IN  [isValid |-> errors = <<>>,
         sanitizedCode |-> sanitizedCode,
         errors |-> errors]

----------------------------------------------------------------------------
(* The problem view's submission (handleSubmit) *)

LoginRequired == "You must be logged in to submit."

SubmissionBlocked == "Submission blocked: code contains unsafe patterns."

SubmissionSaved == "Submission saved!"

SubmissionFailed == "Failed to save submission."

UnsafeWarning ==
    "Code contains potentially unsafe patterns and will not be rendered or submitted."

\* the effect on [code]: the standing warning, string | null
codeError == IF ~isCodeSafe(text) THEN Some(UnsafeWarning) ELSE None

\* faulty variant of SubmitEnabled: the warning does not disable the button
SubmitEnabled_DespiteWarning == ~submitting

\* the Submit button is not disabled
SubmitEnabled == ~submitting /\ codeError = None

\* the document handleSubmit hands to addDoc
SubmissionRecord ==
    [userId |-> "uid",
     problemId |-> "problem.id",
     code |-> sanitizeCode(text, language),
     createdAt |-> "serverTimestamp()"]

\* documents one session saves
MaxSubmissions == 1

\* handleSubmit up to the await
HandleSubmit ==
    /\ ~effectDue
    /\ SubmitEnabled
    /\ Len(submissions) < MaxSubmissions
    /\ IF ~currentUser
       THEN /\ submitStatus' = Some(LoginRequired)
            /\ UNCHANGED <<submitting, writes>>
       ELSE IF ~isCodeSafe(text)
       THEN /\ submitStatus' = Some(SubmissionBlocked)
            /\ UNCHANGED <<submitting, writes>>
       ELSE /\ submitting' = TRUE
            /\ submitStatus' = None
            /\ writes' = Append(writes, SubmissionRecord)
    /\ UNCHANGED <<chat, pendingSuggestion, lastSuggestedCode, editorInstance,
                   text, selection, effectDue, prompt, isLoading, inflight,
                   exVars, layoutVars, currentUser, language, submissions,
                   serviceVars>>

\* handleSubmit from the await on: the document store answers the oldest call
HandleSubmitResume ==
    /\ ~effectDue
    /\ writes # <<>>
    /\ \E ok \in BOOLEAN :
        IF ok
        THEN /\ submissions' = Append(submissions, Head(writes))
             /\ submitStatus' = Some(SubmissionSaved)
        ELSE /\ submissions' = submissions
             /\ submitStatus' = Some(SubmissionFailed)
    /\ submitting' = FALSE
    /\ writes' = Tail(writes)
    /\ UNCHANGED <<chat, pendingSuggestion, lastSuggestedCode, editorInstance,
                   text, selection, effectDue, prompt, isLoading, inflight,
                   exVars, layoutVars, currentUser, language, serviceVars>>

\* onAuthStateChanged: setCurrentUser(user)
AuthStateChanged ==
    /\ ~effectDue
    /\ currentUser' = ~currentUser
    /\ UNCHANGED <<chat, pendingSuggestion, lastSuggestedCode, editorInstance,
                   text, selection, effectDue, prompt, isLoading, inflight,
                   exVars, layoutVars, language, submitStatus, submitting,
                   writes, submissions, serviceVars>>

\* the options of the language select
LanguageInputs == {"javascript", "python", "java", "cpp"}

\* the language select's onChange
SetLanguage ==
    /\ ~effectDue
    /\ \E l \in LanguageInputs :
        /\ l # language
        /\ language' = l
    /\ UNCHANGED <<chat, pendingSuggestion, lastSuggestedCode, editorInstance,
                   text, selection, effectDue, prompt, isLoading, inflight,
                   exVars, layoutVars, currentUser, submitStatus, submitting,
                   writes, submissions, serviceVars>>

\* length of the code typed in SubmitSpec
MaxCodeLen == 7

\* pieces of code the user types at the end of the document
CodeTokens == {<<"e", "v", "A", "L">>, <<SP, "(">>, <<"(">>}

\* the user types at the end of the document (MonacoEditor onChange: setCode)
TypeCode ==
    /\ ~effectDue
    /\ \E t \in CodeTokens :
        /\ Len(text) + Len(t) <= MaxCodeLen
        /\ text' = text \o t
    /\ UNCHANGED <<chat, pendingSuggestion, lastSuggestedCode, editorInstance,
                   selection, effectDue, prompt, isLoading, inflight,
                   exVars, layoutVars, submitVars, serviceVars>>

SubmitNext ==
    \/ AuthStateChanged
    \/ SetLanguage
    \/ TypeCode
    \/ HandleSubmit
    \/ HandleSubmitResume

SubmitSpec == Init /\ [][SubmitNext]_vars

----------------------------------------------------------------------------
(* isCodeSafe over typed code: the inputs are built in the editor, piece by  *)
(* piece, from an empty document.                                            *)

\* length of the code typed in SafeSpec
MaxSafeLen == 12

\* pieces of code typed: calls and member accesses the patterns name, in
\* lower and mixed casing, the same names without the parenthesis or dot,
\* and arithmetic
SafeTokens ==
    {<<"e", "v", "a", "l", "(">>, <<"E", "v", "A", "L", "(">>,
     <<"f", "e", "t", "c", "h", "(">>, <<"F", "E", "t", "c", "H", "(">>,
     <<"d", "o", "c", "u", "m", "e", "n", "t", ".">>,
     <<"D", "o", "c", "U", "M", "e", "n", "t", ".">>,
     <<"e", "v", "a", "l">>, <<"d", "o", "c">>,
     <<"1", "+", "2">>, <<"(", "3", ")">>, <<SP, "*", NL>>, <<"/", "4", "-">>}

\* the user types at the end of the document (MonacoEditor onChange: setCode)
SafeTypeCode ==
    /\ ~effectDue
    /\ \E t \in SafeTokens :
        /\ Len(text) + Len(t) <= MaxSafeLen
        /\ text' = text \o t
    /\ UNCHANGED <<chat, pendingSuggestion, lastSuggestedCode, editorInstance,
                   selection, effectDue, prompt, isLoading, inflight,
                   exVars, layoutVars, submitVars, serviceVars>>

\* the user deletes the whole document (onChange: setCode(value || ''))
ClearCode ==
    /\ ~effectDue
    /\ text # <<>>
    /\ text' = <<>>
    /\ UNCHANGED <<chat, pendingSuggestion, lastSuggestedCode, editorInstance,
                   selection, effectDue, prompt, isLoading, inflight,
                   exVars, layoutVars, submitVars, serviceVars>>

SafeNext ==
    \/ SafeTypeCode
    \/ ClearCode

SafeSpec == Init /\ [][SafeNext]_vars

----------------------------------------------------------------------------
(* The Run button (src/src/App.tsx, handleRun).  The texts of an execution   *)
(* response are strings, as nothing is computed from their characters.       *)

\* JUDGE0_LANGUAGE_IDS, an object literal
JUDGE0_LANGUAGE_IDS ==
    [l \in {"javascript", "python", "java", "cpp"} |->
        CASE l = "javascript" -> 63
          [] l = "python" -> 71
          [] l = "java" -> 62
          [] l = "cpp" -> 54]

\* members every object literal inherits from Object.prototype; reading one
\* of them off JUDGE0_LANGUAGE_IDS gives a function, which is truthy
ObjectPrototypeMembers ==
    {"constructor", "toString", "valueOf", "hasOwnProperty",
     "isPrototypeOf", "propertyIsEnumerable", "toLocaleString"}

\* JUDGE0_LANGUAGE_IDS[language]: None is undefined
LanguageId(l) ==
    IF l \in DOMAIN JUDGE0_LANGUAGE_IDS THEN Some(JUDGE0_LANGUAGE_IDS[l])
    ELSE IF l \in ObjectPrototypeMembers THEN Some("function")
    ELSE None

UnsupportedLanguage == "Unsupported language"

ErrorRunningCode == "Error running code"

NoOutput == "No output"

\* the language tags a run is requested with: the select's options, a tag of
\* no language, and a tag that names a member of Object.prototype
RunLanguages == LanguageInputs \cup {"ruby", "constructor"}

\* setLanguage(e.target.value) with any of those tags
RunSetLanguage ==
    /\ \E l \in RunLanguages :
        /\ l # language
        /\ language' = l
    /\ UNCHANGED <<chat, pendingSuggestion, lastSuggestedCode, editorInstance,
                   text, selection, effectDue, prompt, isLoading, inflight,
                   exVars, layoutVars, currentUser, submitStatus, submitting,
                   writes, submissions, serviceVars>>

\* what a field of an execution response holds: nothing (absent or null), the
\* empty string, or text
FieldValues(t) == {None, Some(""), Some(t)}

\* the execution responses: every combination of the four fields
RunResults ==
    [stdout : FieldValues("out"), stderr : FieldValues("err"),
     compile_output : FieldValues("cmp"), message : FieldValues("msg")]

\* a field is truthy: present and not the empty string
Truthy(f) == f # None /\ f[1] # ""

\* faulty variant of ExecutionText: stderr is looked at before stdout
ExecutionText_StderrFirst(r) ==
    IF Truthy(r.stderr) THEN [output |-> None, runError |-> r.stderr]
    ELSE IF Truthy(r.stdout) THEN [output |-> r.stdout, runError |-> None]
    ELSE IF Truthy(r.compile_output)
         THEN [output |-> None, runError |-> r.compile_output]
    ELSE IF Truthy(r.message) THEN [output |-> None, runError |-> r.message]
    ELSE [output |-> Some(NoOutput), runError |-> None]

\* handleRun's if-chain over the response: what it leaves in output and
\* runError, both null before
ExecutionText(r) ==
    IF Truthy(r.stdout) THEN [output |-> r.stdout, runError |-> None]
    ELSE IF Truthy(r.stderr) THEN [output |-> None, runError |-> r.stderr]
    ELSE IF Truthy(r.compile_output)
         THEN [output |-> None, runError |-> r.compile_output]
    ELSE IF Truthy(r.message) THEN [output |-> None, runError |-> r.message]
    ELSE [output |-> Some(NoOutput), runError |-> None]

\* handleRun up to await fetch; without a language id it runs to its end
HandleRun ==
    /\ ~isRunning
    /\ output' = None
    /\ LET language_id == LanguageId(language)
       IN  IF language_id = None
           THEN /\ runError' = Some(UnsupportedLanguage)
                /\ isRunning' = FALSE
                /\ UNCHANGED runCalls
           ELSE /\ runError' = None
                /\ isRunning' = TRUE
                /\ runCalls' =
                       Append(runCalls, [source_code |-> text,
                                         language_id |-> language_id[1],
                                         answer |-> None])
    /\ UNCHANGED <<chat, pendingSuggestion, lastSuggestedCode, editorInstance,
                   text, selection, effectDue, prompt, isLoading, inflight,
                   exVars, layoutVars, submitVars, fetchVars, authVars>>

\* what comes back for an execution call: a response, or a failure of fetch
\* or of response.json()
RunAnswers ==
    {[ok |-> TRUE, result |-> r] : r \in RunResults}
        \cup {[ok |-> FALSE,
                result |-> [stdout |-> None, stderr |-> None,
                            compile_output |-> None, message |-> None]]}

\* the execution service answers the call
ExecutionAnswered ==
    /\ runCalls # <<>>
    /\ Head(runCalls).answer = None
    /\ \E a \in RunAnswers :
        runCalls' = <<[Head(runCalls) EXCEPT !.answer = Some(a)]>>
                        \o Tail(runCalls)
    /\ UNCHANGED <<chat, pendingSuggestion, lastSuggestedCode, editorInstance,
                   text, selection, effectDue, prompt, isLoading, inflight,
                   exVars, layoutVars, submitVars, fetchVars, authVars,
                   isRunning, output, runError>>

\* handleRun from await response.json() on
HandleRunResume ==
    /\ runCalls # <<>>
    /\ Head(runCalls).answer # None
    /\ Head(runCalls).answer[1].ok
    /\ LET result == Head(runCalls).answer[1].result
       IN  /\ output' = ExecutionText(result).output
           /\ runError' = ExecutionText(result).runError
    /\ isRunning' = FALSE
    /\ runCalls' = Tail(runCalls)
    /\ UNCHANGED <<chat, pendingSuggestion, lastSuggestedCode, editorInstance,
                   text, selection, effectDue, prompt, isLoading, inflight,
                   exVars, layoutVars, submitVars, fetchVars, authVars>>

\* handleRun's catch: fetch or response.json() failed
HandleRunFailed ==
    /\ runCalls # <<>>
    /\ Head(runCalls).answer # None
    /\ ~Head(runCalls).answer[1].ok
    /\ output' = None
    /\ runError' = Some(ErrorRunningCode)
    /\ isRunning' = FALSE
    /\ runCalls' = Tail(runCalls)
    /\ UNCHANGED <<chat, pendingSuggestion, lastSuggestedCode, editorInstance,
                   text, selection, effectDue, prompt, isLoading, inflight,
                   exVars, layoutVars, submitVars, fetchVars, authVars>>

\* what the preview pane shows of a run: {output && <pre>} and
\* {runError && <div>}, in this order
RunShown ==
    (IF Truthy(output) THEN <<output[1]>> ELSE <<>>)
        \o (IF Truthy(runError) THEN <<runError[1]>> ELSE <<>>)

RunNext ==
    \/ RunSetLanguage
    \/ HandleRun
    \/ ExecutionAnswered
    \/ HandleRunResume
    \/ HandleRunFailed

RunSpec == Init /\ [][RunNext]_vars

----------------------------------------------------------------------------
(* The problem read (src/src/App.tsx, the effect on [id]) and the loading    *)
(* overlay (src/src/contexts/LoadingContext.tsx).  reads holds the           *)
(* identifiers of the getDoc calls not yet answered; the answers arrive in   *)
(* any order.                                                                *)

\* s without its element i
RemoveAt(s, i) == SubSeq(s, 1, i - 1) \o SubSeq(s, i + 1, Len(s))

\* problem reads outstanding at once
MaxReads == 3

\* the identifiers the route takes: two problems and one without a document
RouteIds == {"p1", "p2", "p3"}

LoadingProblem == "Loading problem..."

\* LoadingProvider.setLoading(loading): what it leaves in isLoading and
\* loadingMessage
setLoading(loading, message) ==
    [isLoading |-> loading,
     loadingMessage |-> IF ~loading THEN "" ELSE message]

\* the route's problem identifier changes and the effect on [id] runs
\* fetchProblem up to await getDoc
RouteChange ==
    /\ ~effectDue
    /\ Len(reads) < MaxReads
    /\ \E i \in RouteIds :
        /\ i # id
        /\ id' = i
        /\ reads' = Append(reads, i)
    /\ overlay' = setLoading(TRUE, loadingMessage).isLoading
    /\ loadingMessage' = LoadingProblem
    /\ UNCHANGED <<chat, pendingSuggestion, lastSuggestedCode, editorInstance,
                   text, selection, effectDue, prompt, isLoading, inflight,
                   exVars, layoutVars, submitVars, runVars, authVars,
                   problem>>

\* fetchProblem after await getDoc, for the outstanding read n answered with
\* a document: setProblem, setCode(initialCode), and setLoading(false)
ProblemReadFoundAt(n) ==
    /\ ~effectDue
    /\ n \in 1..Len(reads)
    /\ reads[n] \in DOMAIN Problems
    /\ problem' = Some(Problems[reads[n]])
    /\ text' = Problems[reads[n]].initialCode
    /\ reads' = RemoveAt(reads, n)
    /\ overlay' = setLoading(FALSE, loadingMessage).isLoading
    /\ loadingMessage' = setLoading(FALSE, loadingMessage).loadingMessage
    /\ UNCHANGED <<chat, pendingSuggestion, lastSuggestedCode, editorInstance,
                   selection, effectDue, prompt, isLoading, inflight,
                   exVars, layoutVars, submitVars, runVars, authVars, id>>

ProblemReadFound == \E n \in 1..Len(reads) : ProblemReadFoundAt(n)

\* fetchProblem after await getDoc, for a read answered without a document
\* (problemDoc.exists() is false) or failed (catch: console.error): only
\* setLoading(false) runs
ProblemReadEmpty ==
    /\ ~effectDue
    /\ \E n \in 1..Len(reads) : reads' = RemoveAt(reads, n)
    /\ overlay' = setLoading(FALSE, loadingMessage).isLoading
    /\ loadingMessage' = setLoading(FALSE, loadingMessage).loadingMessage
    /\ UNCHANGED <<chat, pendingSuggestion, lastSuggestedCode, editorInstance,
                   text, selection, effectDue, prompt, isLoading, inflight,
                   exVars, layoutVars, submitVars, runVars, authVars,
                   id, problem>>

FetchNext ==
    \/ RouteChange
    \/ ProblemReadFound
    \/ ProblemReadEmpty

FetchSpec == Init /\ [][FetchNext]_vars

----------------------------------------------------------------------------
(* The auth provider (src/unnamed/part_000) and createUserDocument          *)
(* (src/unnamed/part_001).  Each await is a step of its own: authCalls holds *)
(* the remote call each running callback waits for, and the answers arrive   *)
(* in any order.                                                             *)

\* callbacks followed at once
MaxAuthCalls == 3

\* rejections counted
MaxFaults == 2

\* the observer passed to onAuthStateChanged, up to its first await: the auth
\* service delivers a state (user signed in or not)
OnAuthStateChanged ==
    /\ Len(authCalls) < MaxAuthCalls
    /\ \E user \in BOOLEAN :
        /\ currentUser' = user
        /\ IF user
           THEN /\ authCalls' = Append(authCalls, "getDoc")
                /\ UNCHANGED authLoading
           ELSE /\ authLoading' = FALSE
                /\ UNCHANGED authCalls
    /\ UNCHANGED <<chat, pendingSuggestion, lastSuggestedCode, editorInstance,
                   text, selection, effectDue, prompt, isLoading, inflight,
                   exVars, layoutVars, language, submitStatus, submitting,
                   writes, submissions, runVars, fetchVars, userDoc,
                   unhandled>>

\* createUserDocument after await getDoc(userRef): a failed read is not
\* caught, neither there nor in the observer, whose promise is rejected with
\* no handler and whose setLoading(false) is not reached
GetDocResume ==
    /\ \E i \in 1..Len(authCalls) :
        /\ authCalls[i] = "getDoc"
        /\ \E ok \in BOOLEAN :
            IF ok
            THEN /\ authCalls' =
                       [authCalls EXCEPT ![i] =
                            IF ~userDoc THEN "setDoc" ELSE "updateDoc"]
                 /\ UNCHANGED unhandled
            ELSE /\ unhandled < MaxFaults
                 /\ authCalls' = RemoveAt(authCalls, i)
                 /\ unhandled' = unhandled + 1
    /\ UNCHANGED <<chat, pendingSuggestion, lastSuggestedCode, editorInstance,
                   text, selection, effectDue, prompt, isLoading, inflight,
                   exVars, layoutVars, submitVars, runVars, fetchVars,
                   authLoading, userDoc>>

\* createUserDocument after await setDoc(userRef, userData), inside try/catch,
\* and the observer after await createUserDocument(user): setLoading(false)
SetDocResume ==
    /\ \E i \in 1..Len(authCalls) :
        /\ authCalls[i] = "setDoc"
        /\ authCalls' = RemoveAt(authCalls, i)
    /\ \E ok \in BOOLEAN : userDoc' = (userDoc \/ ok)
    /\ authLoading' = FALSE
    /\ UNCHANGED <<chat, pendingSuggestion, lastSuggestedCode, editorInstance,
                   text, selection, effectDue, prompt, isLoading, inflight,
                   exVars, layoutVars, submitVars, runVars, fetchVars,
                   unhandled>>

\* createUserDocument after await updateDoc(userRef, {lastLogin}), outside any
\* try, and the observer after await createUserDocument(user)
UpdateDocResume ==
    /\ \E i \in 1..Len(authCalls) :
        /\ authCalls[i] = "updateDoc"
        /\ authCalls' = RemoveAt(authCalls, i)
    /\ \E ok \in BOOLEAN :
        IF ok
        THEN /\ authLoading' = FALSE
             /\ UNCHANGED unhandled
        ELSE /\ unhandled < MaxFaults
             /\ unhandled' = unhandled + 1
             /\ UNCHANGED authLoading
    /\ UNCHANGED <<chat, pendingSuggestion, lastSuggestedCode, editorInstance,
                   text, selection, effectDue, prompt, isLoading, inflight,
                   exVars, layoutVars, submitVars, runVars, fetchVars,
                   userDoc>>

\* the document store answers a call of the auth provider
AuthResume ==
    \/ GetDocResume
    \/ SetDocResume
    \/ UpdateDocResume

AuthNext ==
    \/ OnAuthStateChanged
    \/ AuthResume

AuthSpec == AuthInit /\ [][AuthNext]_vars

\* every call of the auth provider is answered, with a result or a failure
AuthFairSpec == AuthSpec /\ WF_vars(AuthResume)

\* AuthProvider's render: {!loading && children}
childrenRendered == ~authLoading

----------------------------------------------------------------------------
(* Shared definitions of the claims *)

AssistantIndexes(c) == {i \in 1..Len(c) : c[i].role = "assistant"}

HasAssistant(c) == AssistantIndexes(c) # {}

\* the index of the most recent assistant message
LatestAssistant(c) ==
    CHOOSE i \in AssistantIndexes(c) : \A j \in AssistantIndexes(c) : j <= i

\* t is s without its leading and trailing whitespace
IsTrimOf(t, s) ==
    \E i \in 0..Len(s) : \E j \in 0..Len(s) :
        /\ i + j <= Len(s)
        /\ t = SubSeq(s, i + 1, Len(s) - j)
        /\ \A k \in 1..i : IsSpace(s[k])
        /\ \A k \in (Len(s) - j + 1)..Len(s) : IsSpace(s[k])
        /\ t # <<>> => ~IsSpace(t[1]) /\ ~IsSpace(t[Len(t)])

\* the bodies of the blocks written into message i (ExtractSpec)
WrittenBodies(i) == SelectSeq(exSegs[i], LAMBDA g : g.block)

\* the latest assistant message holds at least one fenced block
HasBlock(c) ==
    HasAssistant(c) /\ matchAll(c[LatestAssistant(c)].content) # <<>>

\* what the coordinator's scan offers for transcript c when nothing is
\* pending, nothing was resolved and the editor shows a bare cursor
ScanOffer(c) == SuggestionEffectResult(TRUE, c, None, None, Range(1, 1))

\* range r cut to document doc
CutStart(doc, r) == Min(r.start, Len(doc) + 1)

CutEnd(doc, r) == Min(r.end, Len(doc) + 1)

\* new is doc with exactly the characters of range r (cut to doc) replaced
\* by code: the same before the range, the code in its place, the same after
ReplacedExactly(doc, new, r, code) ==
    LET s == CutStart(doc, r)
        e == CutEnd(doc, r)
        d == Len(code) - (e - s)
    IN  /\ Len(new) = Len(doc) + d
        /\ \A i \in 1..(s - 1) : new[i] = doc[i]
        /\ \A i \in 1..Len(code) : new[s - 1 + i] = code[i]
        /\ \A i \in e..Len(doc) : new[i + d] = doc[i]

\* range r reaches past the end of document doc
Stale(doc, r) == r.end > Len(doc) + 1

----------------------------------------------------------------------------
(* C1 *)

\* C1, as claimed: for a transcript that is empty or whose final message is
\* not an assistant message, extraction returns empty (getLastCodeBlock
\* returns the empty text and the coordinator's scan offers nothing),
\* whatever earlier assistant messages contain.
C1_EmptyUnlessEndsWithAssistant ==
    (chat = <<>> \/ chat[Len(chat)].role # "assistant")
        => getLastCodeBlock(chat) = <<>> /\ ScanOffer(chat) = None

\* C1, amended: for a transcript that is empty or holds no assistant message,
\* extraction returns empty; a transcript whose final message is a user
\* message gives what the transcript without that message gives.
C1_EmptyWithoutAssistant ==
    /\ ~HasAssistant(chat)
        => getLastCodeBlock(chat) = <<>> /\ ScanOffer(chat) = None
    /\ (HasAssistant(chat) /\ chat[Len(chat)].role = "user")
        => /\ getLastCodeBlock(chat) =
                  getLastCodeBlock(SubSeq(chat, 1, Len(chat) - 1))
           /\ ScanOffer(chat) = ScanOffer(SubSeq(chat, 1, Len(chat) - 1))

\* a user message holding a fenced block, no assistant message, and the
\* coordinator has evaluated the transcript
C1_Witness ==
    /\ chat # <<>>
    /\ ~HasAssistant(chat)
    /\ matchAll(chat[Len(chat)].content) # <<>>
    /\ editorInstance
    /\ ~effectDue
    /\ pendingSuggestion = None

----------------------------------------------------------------------------
(* C2 *)

\* C2: for a transcript with at least one assistant message, extraction
\* returns the whitespace-trimmed body of the last block written into the
\* most recent assistant message, and empty when no block was written into
\* it; blocks of earlier messages and of user messages are never returned.
C2_LastBlockOfLatestAssistant ==
    HasAssistant(chat) =>
        LET bodies == WrittenBodies(LatestAssistant(chat))
            offer  == ScanOffer(chat)
        IN  IF bodies = <<>>
            THEN exOut = <<>> /\ offer = None
            ELSE /\ IsTrimOf(exOut, bodies[Len(bodies)].body)
                 /\ offer # None
                 /\ offer[1].code = exOut

\* the latest assistant message holds two blocks with different bodies, an
\* earlier assistant message holds a block too, and the second was returned
C2_Witness ==
    /\ Len(chat) >= 2
    /\ HasAssistant(chat)
    /\ LET k == LatestAssistant(chat)
       IN  /\ Len(WrittenBodies(k)) = 2
           /\ WrittenBodies(k)[1].body = <<"a">>
           /\ exOut = <<"b">>
           /\ \E i \in 1..(k - 1) : WrittenBodies(i) # <<>>

----------------------------------------------------------------------------
(* C3 *)

\* C3: in every reachable state, a pending suggestion's code is not empty.
C3_PendingCodeNonEmpty ==
    pendingSuggestion # None => pendingSuggestion[1].code # <<>>

----------------------------------------------------------------------------
(* C4 *)

\* C4: when the coordinator evaluates a block that is neither the pending
\* suggestion's code nor the last resolved code, the result is a replace
\* suggestion carrying exactly the editor's current selection if that is not
\* empty, and an insert suggestion without range if it is empty; its code is
\* the extracted block.
C4_NewBlockIntent ==
    [][ (/\ effectDue
         /\ editorInstance
         /\ HasBlock(chat)
         /\ ~(pendingSuggestion # None
                /\ pendingSuggestion[1].code = getLastCodeBlock(chat))
         /\ lastSuggestedCode # Some(getLastCodeBlock(chat)))
        => pendingSuggestion' =
               IF selection.start # selection.end
               THEN Some([type |-> "replace", code |-> getLastCodeBlock(chat),
                          range |-> Some(selection)])
               ELSE Some([type |-> "insert", code |-> getLastCodeBlock(chat),
                          range |-> None]) ]_vars

\* a replace suggestion was offered for a non-empty selection and carries it
C4_Witness ==
    /\ pendingSuggestion # None
    /\ pendingSuggestion[1].type = "replace"
    /\ pendingSuggestion[1].range = Some(selection)
    /\ selection.start # selection.end
    /\ pendingSuggestion[1].code = getLastCodeBlock(chat)
    /\ pendingSuggestion[1].code # <<>>

----------------------------------------------------------------------------
(* C5 *)

\* C5: accepting or rejecting a suggestion records its code, and no
\* suggestion whose code is the recorded one exists afterwards, whatever
\* re-evaluations happen, until a different code has been resolved.
C5_ResolvedNotReoffered ==
    [][ /\ ((Accept \/ Reject) /\ editorInstance)
            => lastSuggestedCode' = Some(pendingSuggestion[1].code)
        /\ pendingSuggestion' # None
            => lastSuggestedCode' # Some(pendingSuggestion'[1].code) ]_vars

\* code "a" was resolved, a later assistant message offers "a" again, the
\* coordinator has re-evaluated and is idle
C5_Witness ==
    /\ lastSuggestedCode = Some(<<"a">>)
    /\ pendingSuggestion = None
    /\ ~effectDue
    /\ Cardinality(AssistantIndexes(chat)) >= 2
    /\ \A i \in AssistantIndexes(chat) : getLastCodeBlock(<<chat[i]>>) = <<"a">>

----------------------------------------------------------------------------
(* C6 *)

\* C6: accepting a pending suggestion with the editor available sets
\* lastSuggestedCode to its code and clears the pending slot, and the
\* coordinator's re-evaluation that follows leaves it idle (no suggestion is
\* offered right after an accept).
C6_AcceptThenIdle ==
    [][ (Accept /\ editorInstance)
        => /\ lastSuggestedCode' = Some(pendingSuggestion[1].code)
           /\ pendingSuggestion' = None
           /\ SuggestionEffectResult(editorInstance', chat',
                                     pendingSuggestion', lastSuggestedCode',
                                     selection') = None ]_vars

----------------------------------------------------------------------------
(* C7 *)

----------------------------------------------------------------------------
(* C8 *)

----------------------------------------------------------------------------
(* C9 *)

\* C9, as claimed: while the editor is not mounted the coordinator still
\* computes pending state: once it has evaluated a transcript whose latest
\* assistant message holds a non-empty block, a suggestion is pending.
C9_PendingWhileUnmounted ==
    (/\ ~editorInstance
     /\ ~effectDue
     /\ HasBlock(chat)
     /\ getLastCodeBlock(chat) # <<>>)
        => pendingSuggestion # None

\* C9, amended: while the editor is not mounted no suggestion is pending and
\* no step (a send, a reply, a re-evaluation, the panel's Insert and Replace)
\* creates one or changes the editor text, the selection or
\* lastSuggestedCode; once the editor is mounted and the coordinator has
\* evaluated, the latest block is pending or was the last one resolved.
C9_IdleUntilMounted ==
    [][ /\ ~editorInstance
            => /\ pendingSuggestion = None
               /\ pendingSuggestion' = None
               /\ text' = text
               /\ selection' = selection
               /\ lastSuggestedCode' = lastSuggestedCode
        /\ (editorInstance /\ ~effectDue /\ HasBlock(chat))
            => AlreadyOffered(getLastCodeBlock(chat), pendingSuggestion,
                              lastSuggestedCode) ]_vars

\* the editor is not mounted, the coordinator has evaluated a transcript
\* whose latest assistant message holds a non-empty block, and nothing is
\* pending
C9_Witness ==
    /\ ~editorInstance
    /\ ~effectDue
    /\ ~isLoading
    /\ HasBlock(chat)
    /\ getLastCodeBlock(chat) # <<>>
    /\ pendingSuggestion = None
    /\ text = StarterCode

----------------------------------------------------------------------------
(* C10 *)

\* C10: accepting a replace suggestion whose captured range is absent or no
\* longer inside the document changes no editor text but still resolves the
\* suggestion: lastSuggestedCode becomes its code and the pending slot is
\* cleared.
C10_StaleReplaceIsNoOp ==
    [][ (/\ Accept
         /\ editorInstance
         /\ pendingSuggestion[1].type = "replace"
         /\ (\/ pendingSuggestion[1].range = None
             \/ Stale(text, pendingSuggestion[1].range[1])))
        => /\ text' = text
           /\ lastSuggestedCode' = Some(pendingSuggestion[1].code)
           /\ pendingSuggestion' = None ]_vars

----------------------------------------------------------------------------
(* C11 *)

\* C11: lastSuggestedCode is empty at the start, is changed by no operation
\* other than accept and reject, and each accept or reject (with the editor
\* available) sets it to the code of the suggestion resolved, so that it is
\* always the code of the suggestion resolved last.
C11_LastIsLastResolved ==
    /\ lastSuggestedCode = None
    /\ [][ /\ ((Accept \/ Reject) /\ editorInstance)
               => lastSuggestedCode' = Some(pendingSuggestion[1].code)
           /\ ~(Accept \/ Reject)
               => lastSuggestedCode' = lastSuggestedCode ]_vars

\* code "a" was accepted into the editor and code "b" was resolved after it
C11_Witness ==
    /\ lastSuggestedCode = Some(<<"b">>)
    /\ pendingSuggestion = None
    /\ \E i \in 1..Len(text) : text[i] = "a"
    /\ ~effectDue

----------------------------------------------------------------------------
(* C12 *)

\* C12: suppression goes by the text of the code only: when the coordinator
\* evaluates a transcript whose latest block equals lastSuggestedCode, it
\* creates no suggestion, whichever message the block is in; a block that
\* differs from lastSuggestedCode and from the pending code is offered.
C12_SuppressionByText ==
    [][ (effectDue /\ editorInstance /\ HasBlock(chat))
        => LET code == getLastCodeBlock(chat)
           IN  /\ lastSuggestedCode = Some(code)
                   => pendingSuggestion' = pendingSuggestion
               /\ (/\ lastSuggestedCode # Some(code)
                   /\ (pendingSuggestion = None
                         \/ pendingSuggestion[1].code # code))
                   => /\ pendingSuggestion' # None
                      /\ pendingSuggestion'[1].code = code ]_vars

\* "a" was resolved, a second message brought "a" again and nothing was
\* offered for it, then a third message brought "b", which is pending
C12_Witness ==
    /\ lastSuggestedCode = Some(<<"a">>)
    /\ pendingSuggestion # None
    /\ pendingSuggestion[1].code = <<"b">>
    /\ Cardinality({i \in AssistantIndexes(chat) :
                       getLastCodeBlock(<<chat[i]>>) = <<"a">>}) = 2
    /\ getLastCodeBlock(chat) = <<"b">>
    /\ text = StarterCode

----------------------------------------------------------------------------
(* C13 *)

\* C13: when the coordinator re-evaluates while a suggestion with code c is
\* pending and the latest block is still c, it leaves the suggestion as it
\* is, kind and captured range included, whatever the editor's selection is
\* by then; and a change of selection never changes the suggestion.
C13_PendingKeptOnReevaluation ==
    [][ /\ SelectionChange => pendingSuggestion' = pendingSuggestion
        /\ (/\ effectDue
            /\ pendingSuggestion # None
            /\ editorInstance
            /\ HasBlock(chat)
            /\ getLastCodeBlock(chat) = pendingSuggestion[1].code)
           => /\ \A s \in 1..(Len(text) + 1) : \A e \in s..(Len(text) + 1) :
                    SuggestionEffectResult(editorInstance, chat,
                                           pendingSuggestion, lastSuggestedCode,
                                           Range(s, e)) = pendingSuggestion
              /\ pendingSuggestion' = pendingSuggestion ]_vars

\* an insert suggestion is pending, the selection has since become non-empty,
\* and the coordinator has re-evaluated (a further prompt was sent) and kept it
C13_Witness ==
    /\ pendingSuggestion # None
    /\ pendingSuggestion[1].type = "insert"
    /\ ~isEmpty(selection)
    /\ getLastCodeBlock(chat) = pendingSuggestion[1].code
    /\ chat[Len(chat)].role = "user"
    /\ isLoading
    /\ ~effectDue

----------------------------------------------------------------------------
(* C14 *)

\* C14: in every reachable state minWidth <= width <= maxWidth, for any
\* sequence of mouse-down, mouse-move and mouse-up events with any pointer
\* position, positions outside the viewport included.
C14_WidthInBounds == minWidth <= width /\ width <= maxWidth

\* a session is active and a mouse-move (the pointer far to the right of the
\* viewport, or a viewport narrower than the minimum) has brought the width
\* to the minimum
C14_Witness == width = minWidth /\ isResizing

----------------------------------------------------------------------------
(* C15 *)

\* C15: the width changes only by a mouse-move inside a resize session (after
\* a mouse-down on the handle and before the next mouse-up); mouse-moves
\* outside a session, mouse-down, mouse-up and all chat and suggestion
\* events leave it unchanged; a session begins only by mouse-down and ends
\* only by mouse-up.
C15_WidthChangesOnlyInSession ==
    [][ /\ width' # width => (isResizing /\ handleMouseMove)
        /\ (isResizing' /\ ~isResizing) => handleMouseDown
        /\ (isResizing /\ ~isResizing') => handleMouseUp
        /\ (handleMouseMove /\ ~isResizing) => width' = width ]_vars

\* the panel was resized in a session that has ended, and chat and
\* suggestion events have happened since the start
C15_Witness ==
    /\ width # InitialWidth
    /\ ~isResizing
    /\ lastSuggestedCode # None
    /\ ~effectDue

\* s begins with p
StartsWith(s, p) == Len(s) >= Len(p) /\ SubSeq(s, 1, Len(p)) = p

\* transcript c is d with messages appended
IsPrefix(c, d) == Len(c) <= Len(d) /\ SubSeq(d, 1, Len(c)) = c

----------------------------------------------------------------------------
(* C16 *)

\* C16: when the completion call of a send fails, the send appends exactly
\* one assistant message, right after its user message, whose text starts
\* with "Error: ", and the handler runs to its end (nothing is thrown out of
\* it: the prompt is cleared and the loading flag reset).
C16_FailureAppendsErrorMessage ==
    [][ \A o \in SendOutcomes :
          (HandleSendResumeWith(o) /\ ~o.ok)
          => /\ chat[Len(chat)].role = "user"
             /\ Len(chat') = Len(chat) + 1
             /\ SubSeq(chat', 1, Len(chat)) = chat
             /\ chat'[Len(chat')].role = "assistant"
             /\ StartsWith(chat'[Len(chat')].content, ErrorPrefix)
             /\ prompt' = <<>>
             /\ ~isLoading' ]_vars

\* a send failed without an error text, and one failed with the text "E"
C16_Witness ==
    /\ Len(chat) = 4
    /\ chat[2] = Message("assistant", ErrorPrefix \o FailedToFetch)
    /\ chat[4] = Message("assistant", ErrorPrefix \o <<"E">>)
    /\ ~isLoading

----------------------------------------------------------------------------
(* C17 *)

\* C17: at most one completion call is outstanding at any time, and a call
\* is outstanding exactly while the loading flag is set: between the start
\* of a send and the arrival of its answer no second send starts.
C17_OneCallOutstanding ==
    /\ Len(inflight) <= 1
    /\ isLoading <=> inflight # <<>>

\* a second send is outstanding, with a non-blank prompt in the field
C17_Witness ==
    /\ Len(inflight) = 1
    /\ isLoading
    /\ Len(chat) = 3
    /\ trim(prompt) # <<>>
    /\ ~effectDue

----------------------------------------------------------------------------
(* C18 *)

\* C18: every assistant message of the transcript has non-empty content: a
\* success without returned text gives "No response from AI.", a failure
\* gives a text starting with "Error: ".
C18_AssistantContentNonEmpty ==
    [][ /\ \A i \in 1..Len(chat') :
              chat'[i].role = "assistant" => chat'[i].content # <<>>
        /\ \A o \in SendOutcomes :
              HandleSendResumeWith(o)
              => /\ (o.ok /\ (o.content = None \/ o.content = Some(<<>>)))
                     => chat'[Len(chat')].content = NoResponse
                 /\ ~o.ok
                     => StartsWith(chat'[Len(chat')].content, ErrorPrefix) ]_vars

\* a success without text was answered by the fallback, after a failure
C18_Witness ==
    /\ Len(chat) = 4
    /\ StartsWith(chat[2].content, ErrorPrefix)
    /\ chat[4] = Message("assistant", NoResponse)

----------------------------------------------------------------------------
(* C19 *)

\* C19: the transcript is append-only: over every operation of the session
\* (send, answer, failure, accept, reject, drag, selection change, mount,
\* re-evaluation) the transcript before is a prefix of the transcript after.
C19_TranscriptAppendOnly == [][IsPrefix(chat, chat')]_vars

\* a send was answered and its suggestion is pending over a selection, while
\* a drag is under way and has resized the panel
C19_Witness ==
    /\ Len(chat) = 2
    /\ pendingSuggestion # None
    /\ ~isEmpty(selection)
    /\ isResizing
    /\ width # InitialWidth

----------------------------------------------------------------------------
(* C20 *)

----------------------------------------------------------------------------
(* C21 *)

\* C21, as claimed: no failure of a remote call escapes its handler as an
\* unhandled fault; here for the user-document read and write done when the
\* auth state changes.
C21_NoUnhandledFault == unhandled = 0

----------------------------------------------------------------------------
(* C22 *)

----------------------------------------------------------------------------
(* C23 *)

\* the fields of response r in the order of the claim
FieldsInOrder(r) == <<r.stdout, r.stderr, r.compile_output, r.message>>

\* the first field of r, in that order, that is present and not empty; the
\* fixed text if there is none
FirstNonEmpty(r) ==
    LET fs == FieldsInOrder(r)
        ne == {k \in 1..4 : fs[k] \notin {None, Some("")}}
    IN  IF ne = {} THEN NoOutput
        ELSE fs[CHOOSE k \in ne : \A m \in ne : k <= m][1]

\* C23: for every execution response, the text shown to the user afterwards
\* is the first non-empty field in the order stdout, stderr, compile_output,
\* message, and "No output" if all four are absent or empty; nothing else of
\* the run is shown.
C23_ShownTextByPriority ==
    [][ HandleRunResume
        => RunShown' = <<FirstNonEmpty(Head(runCalls).answer[1].result)>> ]_vars

\* a response with an empty stdout and a stderr text was answered: the stderr
\* text is what is shown
C23_Witness ==
    /\ ~isRunning
    /\ runCalls = <<>>
    /\ RunShown = <<"err">>

----------------------------------------------------------------------------
(* C24 *)

\* text s contains needle (given in lower case) in some letter casing
ContainsAnyCase(s, needle) ==
    \E i \in 1..(Len(s) - Len(needle) + 1) :
        \A k \in 1..Len(needle) :
            \/ s[i + k - 1] = needle[k]
            \/ /\ s[i + k - 1] \in DOMAIN LowerOf
               /\ LowerOf[s[i + k - 1]] = needle[k]

\* digits, arithmetic operators, parentheses and whitespace
ArithmeticChars ==
    Digits \cup {"+", "-", "*", "/", "%", "(", ")", SP, NL, CR, "\t"}

\* C24: isCodeSafe is false for every input that contains eval(, fetch( or
\* document. in any letter casing, and true for every input made only of
\* digits, arithmetic operators, parentheses and whitespace.
C24_IsSafeCasingAndArithmetic ==
    /\ (\/ ContainsAnyCase(text, <<"e", "v", "a", "l", "(">>)
        \/ ContainsAnyCase(text, <<"f", "e", "t", "c", "h", "(">>)
        \/ ContainsAnyCase(text,
                           <<"d", "o", "c", "u", "m", "e", "n", "t", ".">>))
           => ~isCodeSafe(text)
    /\ (\A n \in 1..Len(text) : text[n] \in ArithmeticChars)
           => isCodeSafe(text)

\* arithmetic followed by a call of eval in mixed casing was typed, and the
\* code is not safe
C24_Witness ==
    /\ text = <<"1", "+", "2", "E", "v", "A", "L", "(">>
    /\ ~isCodeSafe(text)

----------------------------------------------------------------------------
(* C25 *)

\* v is a SanitizationResult object, not a text
IsSanitizationResult(v) == "sanitizedCode" \in DOMAIN v

\* C25, as claimed: each submit that calls the document store writes one
\* record, whose code field is the code text (a string), with the user
\* identifier, the problem identifier and the server's timestamp.
C25_RecordHoldsCodeText ==
    [][ (HandleSubmit /\ writes' # writes)
        => /\ Len(writes') = Len(writes) + 1
           /\ LET rec == writes'[Len(writes')]
              IN  /\ DOMAIN rec = {"userId", "problemId", "code", "createdAt"}
                  /\ ~IsSanitizationResult(rec.code)
                  /\ rec.code = text ]_vars

----------------------------------------------------------------------------
(* C26 *)

\* C26, as claimed: whenever a suggestion is pending (and the coordinator has
\* evaluated the current transcript), its code is the trimmed last fenced
\* block of the most recent assistant message; a newer assistant message
\* without a block leaves no suggestion of an older message pending.
C26_PendingIsLatestBlock ==
    (pendingSuggestion # None /\ ~effectDue)
        => /\ HasBlock(chat)
           /\ getLastCodeBlock(chat) = pendingSuggestion[1].code

----------------------------------------------------------------------------
(* C27 *)

\* C27, as claimed: when the last outstanding problem read is answered with
\* its document, the problem displayed and the code of the editor are those
\* of the route's current identifier, in whatever order the answers came.
C27_LatestProblemShown ==
    [][ (ProblemReadFound /\ reads' = <<>> /\ id \in DOMAIN Problems)
        => /\ problem' = Some(Problems[id])
           /\ text' = Problems[id].initialCode ]_vars

----------------------------------------------------------------------------
(* C28 *)

\* the roles of the transcript alternate, the first being the user's
RolesAlternate ==
    \A n \in 1..Len(chat) :
        chat[n].role = IF n % 2 = 1 THEN "user" ELSE "assistant"

\* C28: the transcript alternates between user and assistant messages
\* starting with a user message, and its last message is a user message
\* exactly while a completion call is outstanding.
C28_TranscriptAlternates ==
    /\ RolesAlternate
    /\ (chat # <<>> /\ chat[Len(chat)].role = "user") <=> (inflight # <<>>)

\* a second call is outstanding behind a first exchange
C28_Witness ==
    /\ Len(chat) = 3
    /\ chat[2].role = "assistant"
    /\ chat[3].role = "user"
    /\ inflight # <<>>

----------------------------------------------------------------------------
(* C29 *)

\* C29: every send that starts ends, on success and on failure, with the
\* loading flag false and the prompt empty; a send whose prompt is empty or
\* whitespace changes neither the transcript nor the loading flag and
\* issues no call.
C29_SendEnds ==
    /\ isLoading ~> (~isLoading /\ prompt = <<>>)
    /\ [][ (SendHandleSend /\ trim(prompt) = <<>>)
            => /\ chat' = chat
               /\ isLoading' = isLoading
               /\ inflight' = inflight ]_vars

\* a send has ended on a failed call, a blank prompt not yet typed again
C29_Witness ==
    /\ Len(chat) = 2
    /\ chat[2].role = "assistant"
    /\ Len(chat[2].content) >= Len(ErrorPrefix)
    /\ SubSeq(chat[2].content, 1, Len(ErrorPrefix)) = ErrorPrefix
    /\ ~isLoading
    /\ prompt = <<>>
    /\ inflight = <<>>
    /\ effectDue

----------------------------------------------------------------------------
(* C30 *)

\* C30, as claimed: once the auth provider has delivered a signed-in state
\* and createUserDocument is under way, the loading flag of AuthProvider
\* eventually becomes false and the children are rendered, also when the
\* read or the write of the user document fails.
C30_ChildrenEventuallyRendered ==
    (authCalls # <<>>) ~> childrenRendered

====
